---- MODULE Spec2Model ----
(***************************************************************************)
(* Model of the pixel-trace admin backend (backend/server.js): the         *)
(* process-wide `events` table and the three request handlers that read    *)
(* and write it.  The start-index handler is an async function with two    *)
(* suspension points (await fetch, await rpResp.json()); every other       *)
(* handler runs to completion on the event loop.                           *)
(***************************************************************************)
EXTENDS Naturals, FiniteSets, Bags, TLC

\* ------------------------------------------------------------------ bounds
\* number of start-index handlers suspended at an await at one time
MaxInflight == 2

\* ------------------------------------------------------------------ values
\* JavaScript's undefined: an absent property, header or table entry
Undefined == "undefined"
\* event names used as keys of the events table
Ids == {"E1", "E2"}
\* property names that every object literal inherits from Object.prototype,
\* so that events[name] is the inherited value when no record was stored
\* under the name; one stands for all (toString, valueOf, __proto__, ...)
Inherited == {"constructor"}
\* names a status query may carry in its path
QueryNames == Ids \cup Inherited
\* values a request may carry in a string field: absent, empty, or a real one
IdInputs == {Undefined, ""} \cup Ids
FolderInputs == {Undefined, "", "F1"}
\* values of the x-runpod-secret header and of WEBHOOK_SECRET
HdrInputs == {Undefined, "", "s3cret", "wrong"}
SecretConfigs == {Undefined, "", "s3cret"}
\* Date.now(): no handler reads a stored timestamp back, so the value is opaque
DateNow == "timestamp"
\* the rest of a callback body: an error indicator and an opaque payload
Payloads == {"P1"}
Bodies == [event_id : IdInputs, error : BOOLEAN, data : Payloads]
\* outcomes of the two awaited promises of start-index
FetchOutcomes == {"reject", "http2xx", "http5xx"}
JsonOutcomes == {"parsed", "reject"}

\* JavaScript truthiness of the string-or-undefined values used here
Truthy(x) == x /= Undefined /\ x /= ""

\* values of the URL variables of the indexer's environment
UrlConfigs == {Undefined, "", "http://url"}
\* exit codes of the indexer process
ExitCodes == {0, 1}

\* events, pending, secret and last are the backend's state; sh is the state
\* of one run of the indexer container's entrypoint script
VARIABLES events, pending, secret, last, sh

vars == <<events, pending, secret, last, sh>>

\* ------------------------------------------------------------------ records
\* A JavaScript object is a function from the properties it has to their
\* values; a property never assigned is not in its domain.
EmptyObj == [k \in {} |-> Undefined]

\* obj[k] = v
Put(obj, k, v) == [f \in DOMAIN obj \cup {k} |-> IF f = k THEN v ELSE obj[f]]

\* the table has a record of its own under that name; for the names of Ids,
\* which are not inherited, this is the truthiness of events[name]
Has(tbl, name) == name \in DOMAIN tbl

\* events[name] is truthy: a record of the table's own, or an inherited value
Found(tbl, name) == Has(tbl, name) \/ name \in Inherited

\* what res.json(events[name]) sends: the record, or for an inherited
\* function nothing, JSON having no encoding of a function
JsonOf(tbl, name) == IF Has(tbl, name) THEN tbl[name] ELSE EmptyObj

\* line 26: the object literal of a new queued record
NewQueued(t) == [status |-> "queued", created_at |-> t]

\* line 83: the object literal of a record created by a callback
NewReady(manifest, t) ==
    [status |-> "ready", manifest |-> manifest, updated_at |-> t]

\* a start-index handler suspended at an await: the event name it closed
\* over, the await it is at, the provider response it holds and the number of
\* fetch calls it has made
Suspended(name, pc, rp) ==
    [eventName |-> name, pc |-> pc, rp |-> rp, calls |-> 1]

\* the last handler step that wrote the table or answered a request:
\*   op     the handler: "submit" is start-index up to its fetch call,
\*          "result" its resumption answering the request, "callback", "get"
\*   req    the request as the handler read it
\*   code   the status code it answered with, 0 when it has not answered yet
\*   body   the body it answered with
\*   calls  the number of fetch calls made so far in serving the request
\*   prior  the events table before the step
Step(op, req, code, body, calls, prior) ==
    [op |-> op, req |-> req, code |-> code, body |-> body, calls |-> calls,
     prior |-> prior]

NoStep == Step("none", EmptyObj, 0, EmptyObj, 0, EmptyObj)

\* what rpResp.json() yields for a provider response
PodData(rp) == IF rp = "http2xx" THEN "podInfo" ELSE "errorBody"

\* no run of the entrypoint script
NoRun ==
    [pc |-> "none", saUrl |-> Undefined, cbUrl |-> Undefined, ended |-> FALSE,
     code |-> 0, manifest |-> FALSE, posts |-> 0, hdr |-> Undefined, status |-> 0]

ServerInit ==
    /\ events = EmptyObj
    /\ pending = EmptyBag
    /\ secret \in SecretConfigs
    /\ last = NoStep

Init == ServerInit /\ sh = NoRun

\* ------------------------------------------------------------------ start-index
\* fault variant of SubmitInvalid: the check of driveFolderId is forgotten
SubmitInvalidNameOnly(folder, name) == ~Truthy(name)

\* the condition of the 400 answer of line 23
SubmitInvalid(folder, name) == ~Truthy(folder) \/ ~Truthy(name)

\* fault variant of SaveQueued: the table is replaced by one that holds the
\* new record only
SaveQueuedFresh(tbl, name, t) == Put(EmptyObj, name, NewQueued(t))

\* line 26 applied to the table
SaveQueued(tbl, name, t) == Put(tbl, name, NewQueued(t))

\* lines 20-44: validation, the queued record, and the call of fetch
SubmitStart(folder, name) ==
    LET req == [driveFolderId |-> folder, eventName |-> name] IN
    IF SubmitInvalid(folder, name)
    THEN /\ last' = Step("submit", req, 400, [error |-> "required"], 0, events)
         /\ UNCHANGED <<events, pending, secret, sh>>
    ELSE /\ BagCardinality(pending) < MaxInflight
         /\ last' = Step("submit", req, 0, EmptyObj, 1, events)
         /\ events' = SaveQueued(events, name, DateNow)
         /\ pending' = pending (+) SetToBag({Suspended(name, "fetch", Undefined)})
         /\ UNCHANGED <<secret, sh>>

\* fault variant of SubmitCatch: the catch block also drops the queued record
SubmitCatchForgets(h) ==
    /\ last' = Step("result", h, 500, [error |-> "message"], h.calls, events)
    /\ pending' = pending (-) SetToBag({h})
    /\ events' = [n \in DOMAIN events \ {h.eventName} |-> events[n]]
    /\ UNCHANGED <<secret, sh>>

\* lines 57-59: the catch block answers 500 and leaves the table alone
SubmitCatch(h) ==
    /\ last' = Step("result", h, 500, [error |-> "message"], h.calls, events)
    /\ pending' = pending (-) SetToBag({h})
    /\ UNCHANGED <<events, secret, sh>>

\* fault variant of FetchResolve: a rejected fetch is issued a second time
\* before the handler gives up
FetchResolveRetry(h, outcome) ==
    /\ BagIn(h, pending)
    /\ h.pc = "fetch"
    /\ IF outcome = "reject"
       THEN /\ pending' = (pending (-) SetToBag({h}))
                             (+) SetToBag({[h EXCEPT !.calls = h.calls + 1]})
            /\ UNCHANGED <<events, secret, last, sh>>
       ELSE /\ pending' = (pending (-) SetToBag({h}))
                             (+) SetToBag({[h EXCEPT !.pc = "json", !.rp = outcome]})
            /\ UNCHANGED <<events, secret, last, sh>>

\* line 44 resumes: fetch rejects on a network error only; any HTTP response,
\* 4xx and 5xx included, resolves and the handler goes on to rpResp.json()
FetchResolve(h, outcome) ==
    /\ BagIn(h, pending)
    /\ h.pc = "fetch"
    /\ IF outcome = "reject"
       THEN SubmitCatch(h)
       ELSE /\ pending' = (pending (-) SetToBag({h}))
                             (+) SetToBag({[h EXCEPT !.pc = "json", !.rp = outcome]})
            /\ UNCHANGED <<events, secret, last, sh>>

\* fault variant of DispatchResult: the status assignment of line 54 is lost
DispatchResultPodOnly(job, data) == Put(job, "pod", data)

\* lines 54-55 applied to the record of an event name
DispatchResult(job, data) ==
    Put(Put(job, "status", "processing"), "pod", data)

\* line 53 resumes, then lines 54-56; a rejected json() goes to the catch,
\* and so does the TypeError of line 54 when the table has no such record
JsonResolve(h, outcome) ==
    /\ BagIn(h, pending)
    /\ h.pc = "json"
    /\ IF outcome = "reject" \/ ~Has(events, h.eventName)
       THEN SubmitCatch(h)
       ELSE /\ last' = Step("result", h, 200,
                            [ok |-> TRUE, runpod |-> PodData(h.rp)], h.calls, events)
            /\ events' = Put(events, h.eventName,
                              DispatchResult(events[h.eventName], PodData(h.rp)))
            /\ pending' = pending (-) SetToBag({h})
            /\ UNCHANGED <<secret, sh>>

\* ------------------------------------------------------------------ callback
\* line 68: the header as the handler reads it, a missing one read as ''
HeaderRead(hdr) == IF Truthy(hdr) THEN hdr ELSE ""

\* fault variant of Rejected: a request without the header is let through
RejectedIfPresent(hdr) ==
    /\ Truthy(secret)
    /\ Truthy(hdr)
    /\ hdr /= secret

\* fault variant of Rejected: an unset secret is compared as the empty string,
\* so that a request presenting any header is turned away
RejectedAgainstEmpty(hdr) ==
    HeaderRead(hdr) /= (IF Truthy(secret) THEN secret ELSE "")

\* lines 66-73: the header is checked only when a secret is configured
Rejected(hdr) ==
    /\ Truthy(secret)
    /\ HeaderRead(hdr) /= secret

\* fault variant of CallbackUpdate: a manifest already stored is kept
CallbackUpdateKeepFirst(job, manifest, t) ==
    IF "manifest" \in DOMAIN job
    THEN Put(job, "updated_at", t)
    ELSE Put(Put(Put(job, "status", "ready"), "manifest", manifest), "updated_at", t)

\* fault variant of CallbackUpdate: the status follows the body's error field
CallbackUpdateByFlag(job, manifest, t) ==
    Put(Put(Put(job, "status", IF manifest.error THEN "failed" ELSE "ready"),
            "manifest", manifest), "updated_at", t)

\* fault variant of CallbackUpdate: a callback for a record that already
\* holds a manifest is taken for a conflict and marks the record failed
CallbackUpdateFlagRepeat(job, manifest, t) ==
    IF "manifest" \in DOMAIN job
    THEN Put(Put(job, "status", "failed"), "updated_at", t)
    ELSE Put(Put(Put(job, "status", "ready"), "manifest", manifest), "updated_at", t)

\* lines 79-81 applied to an existing record
CallbackUpdate(job, manifest, t) ==
    Put(Put(Put(job, "status", "ready"), "manifest", manifest), "updated_at", t)

\* fault variant of CallbackStore: a callback for an unknown id is dropped
CallbackStoreKnownOnly(manifest) ==
    LET eventName == manifest.event_id IN
    IF Truthy(eventName) /\ Has(events, eventName)
    THEN Put(events, eventName, CallbackUpdate(events[eventName], manifest, DateNow))
    ELSE events

\* fault variant of CallbackStore: the test of line 82 is lost and a body
\* without event_id is stored under the key its absent id converts to
CallbackStoreNoIdCheck(manifest) ==
    LET eventName == manifest.event_id IN
    IF Truthy(eventName) /\ Has(events, eventName)
    THEN Put(events, eventName, CallbackUpdate(events[eventName], manifest, DateNow))
    ELSE Put(events, eventName, NewReady(manifest, DateNow))

\* lines 77-84: the table after an accepted callback
CallbackStore(manifest) ==
    LET eventName == manifest.event_id IN
    IF Truthy(eventName) /\ Has(events, eventName)
    THEN Put(events, eventName, CallbackUpdate(events[eventName], manifest, DateNow))
    ELSE IF Truthy(eventName)
    THEN Put(events, eventName, NewReady(manifest, DateNow))
    ELSE events

\* lines 64-86; the request read is the header (only when a secret is
\* configured) and the body (only when the header passed)
Callback(hdr, manifest) ==
    /\ IF Rejected(hdr)
       THEN /\ last' = Step("callback", [hdr |-> HeaderRead(hdr)], 401,
                            [text |-> "unauthorized"], 0, events)
            /\ UNCHANGED events
       ELSE /\ last' = Step("callback",
                            [hdr |-> IF Truthy(secret) THEN HeaderRead(hdr)
                                                       ELSE Undefined,
                             manifest |-> manifest],
                            200, [ok |-> TRUE], 0, events)
            /\ events' = CallbackStore(manifest)
    /\ UNCHANGED <<pending, secret, sh>>

\* ------------------------------------------------------------------ status query
\* lines 88-92
GetEvent(name) ==
    /\ last' = IF ~Found(events, name)
               THEN Step("get", [eventName |-> name], 404,
                         [error |-> "not found"], 0, events)
               ELSE Step("get", [eventName |-> name], 200,
                         JsonOf(events, name), 0, events)
    /\ UNCHANGED <<events, pending, secret, sh>>

\* the handlers that can be suspended
Handlers == [eventName : Ids, pc : {"fetch", "json"},
             rp : {Undefined, "http2xx", "http5xx"}, calls : {1}]

Next ==
    \/ \E folder \in FolderInputs, name \in IdInputs : SubmitStart(folder, name)
    \/ \E h \in Handlers, outcome \in FetchOutcomes : FetchResolve(h, outcome)
    \/ \E h \in Handlers, outcome \in JsonOutcomes : JsonResolve(h, outcome)
    \/ \E hdr \in HdrInputs, manifest \in Bodies : Callback(hdr, manifest)
    \/ \E name \in QueryNames : GetEvent(name)

Spec == Init /\ [][Next]_vars

\* ------------------------------------------------------------------ entrypoint
\* indexer/entrypoint.sh, one run of the script.  sh holds
\*   pc        where the script is: "start" (line 7), "indexer" (line 18),
\*             "report" (line 22), "exited"
\*   saUrl     SERVICE_ACCOUNT_URL, cbUrl CALLBACK_URL
\*   ended     the indexer process has run and ended
\*   code      the exit code of the indexer, kept in EXIT_CODE by line 19
\*   manifest  the manifest file exists when the indexer has ended
\*   posts     the number of times curl posted the manifest
\*   hdr       the x-runpod-secret header of the post
\*   status    the exit status of the script
\* and secret is the WEBHOOK_SECRET of the script's environment.
EntryInit ==
    /\ ServerInit
    /\ \E sa \in UrlConfigs, cb \in UrlConfigs :
          sh = [NoRun EXCEPT !.pc = "start", !.saUrl = sa, !.cbUrl = cb]

\* line 2, set -e: a command or pipeline that ends with a non-zero status
\* outside a condition or an || list ends the script with that status
Errexit(run, status) == [run EXCEPT !.pc = "exited", !.status = status]

\* line 2, set -o pipefail: the status of `indexer | tee` is the indexer's
\* when tee succeeds, which it is taken to do
PipelineStatus(code) == code

\* lines 7-12: the optional download of the service account; its failure is
\* handled by the || list, which exits 2
ServiceAccount(ok) ==
    /\ sh.pc = "start"
    /\ sh' = IF Truthy(sh.saUrl) /\ ~ok
             THEN [sh EXCEPT !.pc = "exited", !.status = 2]
             ELSE [sh EXCEPT !.pc = "indexer"]
    /\ UNCHANGED <<events, pending, secret, last>>

\* lines 18-19: the indexer runs and ends with an exit code, having written
\* the manifest file or not; under set -e and pipefail a non-zero code ends
\* the script at line 18, otherwise line 19 keeps the code in EXIT_CODE
RunIndexer(code, wrote) ==
    /\ sh.pc = "indexer"
    /\ LET ran == [sh EXCEPT !.ended = TRUE, !.code = code, !.manifest = wrote]
       IN sh' = IF PipelineStatus(code) /= 0
                THEN Errexit(ran, PipelineStatus(code))
                ELSE [ran EXCEPT !.pc = "report"]
    /\ UNCHANGED <<events, pending, secret, last>>

\* lines 26-35, the manifest file being there and CALLBACK_URL non-empty:
\* one curl with the secret of the environment as header (empty when unset);
\* `|| true` keeps a failed curl from ending the script
PostManifest(run) ==
    [run EXCEPT !.posts = run.posts + 1,
                !.hdr = IF secret = Undefined THEN "" ELSE secret]

\* lines 22-37: the report of the manifest, then exit $EXIT_CODE
Report ==
    /\ sh.pc = "report"
    /\ LET done == [sh EXCEPT !.pc = "exited", !.status = sh.code]
       IN sh' = IF sh.manifest /\ Truthy(sh.cbUrl)
                THEN PostManifest(done)
                ELSE done
    /\ UNCHANGED <<events, pending, secret, last>>

EntryNext ==
    \/ \E ok \in BOOLEAN : ServiceAccount(ok)
    \/ \E code \in ExitCodes, wrote \in BOOLEAN : RunIndexer(code, wrote)
    \/ Report

EntrySpec == EntryInit /\ [][EntryNext]_vars

\* ------------------------------------------------------------------ properties
\* Every step that writes the events table also writes last, so in every
\* state events is the table as the step described by last left it and
\* last.prior is the table as that step found it.

\* That reading of last, as a property of every step: a step that changes
\* the table or last records in last.prior the table it started from.
PriorIsPreState ==
    [][(events' /= events \/ last' /= last) => last'.prior = events]_vars

\* the states the specification calls terminal; the code writes only "ready"
TerminalStates == {"ready", "failed"}

IsTerminal(tbl, name) == Has(tbl, name) /\ tbl[name].status \in TerminalStates

HasManifest(job) == "manifest" \in DOMAIN job

ManifestOf(job) == IF HasManifest(job) THEN job.manifest ELSE EmptyObj

\* the last step answered a start-index request after its provider call
SubmitReturned == last.op = "result" /\ last.code \in {200, 500}

\* the last step was a callback that passed the secret check and carried a
\* job id
CallbackAccepted ==
    /\ last.op = "callback" /\ last.code = 200
    /\ Truthy(last.req.manifest.event_id)

\* C1: a dispatch result (lines 53-56, or the catch block) applied to a job
\* that a callback already made Ready or Failed while the handler waited
\* leaves the job's state and manifest as the callback set them.
C1_LateDispatchKeepsTerminal ==
    SubmitReturned /\ IsTerminal(last.prior, last.req.eventName)
    => LET name == last.req.eventName IN
       /\ events[name].status = last.prior[name].status
       /\ ManifestOf(events[name]) = ManifestOf(last.prior[name])

CreatedByCallback(tbl, name) ==
    /\ IsTerminal(tbl, name)
    /\ "created_at" \notin DOMAIN tbl[name]

\* the last step was the synchronous part of a start-index with both fields
ValidSubmit ==
    /\ last.op = "submit"
    /\ Truthy(last.req.driveFolderId) /\ Truthy(last.req.eventName)

\* C3: a valid start-index for an id whose record a callback created
\* directly in Ready is answered 409 Conflict and leaves the table as it was.
C3_SubmitAfterCallbackConflicts ==
    ValidSubmit /\ CreatedByCallback(last.prior, last.req.eventName)
    => last.code = 409 /\ events = last.prior

\* C4: when the provider call of a valid start-index fails (fetch rejects,
\* or the provider answers 4xx/5xx) the job ends Failed and the request is
\* answered 200.
C4_ProviderFailureRecorded ==
    SubmitReturned /\ last.req.rp /= "http2xx"
    => /\ last.code = 200
       /\ Has(events, last.req.eventName)
       /\ events[last.req.eventName].status = "failed"

\* C5: with a secret configured, a callback whose header is missing or
\* differs from the secret is answered 401 and leaves the table as it was.
C5_BadSecretRejected ==
    last.op = "callback" /\ Truthy(secret) /\ last.req.hdr /= secret
    => last.code = 401 /\ events = last.prior

\* C5 witness: a callback without the header was just answered 401 while
\* the table held a record.
C5_Witness ==
    /\ last.op = "callback" /\ last.code = 401
    /\ Truthy(secret) /\ last.req.hdr = ""
    /\ DOMAIN events /= {}
    /\ events = last.prior

C7_ManifestOnlyWhenTerminal ==
    \A name \in DOMAIN events :
        HasManifest(events[name]) => events[name].status \in TerminalStates

\* the stage of a state along Queued -> Processing -> {Ready | Failed}
Stage(status) ==
    CASE status = "queued" -> 0
      [] status = "processing" -> 1
      [] OTHER -> 2

\* C8: no step moves the state of a job to an earlier stage.
C8_NoBackwardTransition ==
    \A name \in DOMAIN last.prior :
        Has(events, name)
        => Stage(events[name].status) >= Stage(last.prior[name].status)

C10_InvalidSubmitRejected ==
    /\ last.op = "submit"
    /\ ~Truthy(last.req.driveFolderId) \/ ~Truthy(last.req.eventName)
    => /\ last.code = 400
       /\ events = last.prior
       /\ last.calls = 0

\* C10 witness: a start-index with an empty driveFolderId and a real event
\* name was just answered 400 while the table held records.
C10_Witness ==
    /\ last.op = "submit" /\ last.code = 400
    /\ last.req.driveFolderId = "" /\ last.req.eventName \in Ids
    /\ DOMAIN events /= {}

\* C11: an accepted callback applied to a job that the same callback (same
\* id, same body) already made terminal leaves the job's state and manifest
\* as the first application left them; of the record's properties only
\* updated_at may differ, and no other record changes.
C11_RepeatedCallbackIdempotent ==
    /\ CallbackAccepted
    /\ IsTerminal(last.prior, last.req.manifest.event_id)
    /\ ManifestOf(last.prior[last.req.manifest.event_id]) = last.req.manifest
    => LET name == last.req.manifest.event_id
           old == last.prior[name]
           new == events[name]
       IN /\ new.status = old.status
          /\ new.manifest = old.manifest
          /\ DOMAIN new = DOMAIN old
          /\ \A f \in DOMAIN old \ {"updated_at"} : new[f] = old[f]
          /\ \A other \in DOMAIN last.prior \ {name} :
                 events[other] = last.prior[other]
          /\ DOMAIN events = DOMAIN last.prior

\* C11 witness: the last step was an accepted callback whose body the record
\* of its id already held as manifest, the record being Ready and first
\* written by a start-index.
C11_Witness ==
    /\ CallbackAccepted
    /\ IsTerminal(last.prior, last.req.manifest.event_id)
    /\ ManifestOf(last.prior[last.req.manifest.event_id]) = last.req.manifest
    /\ "created_at" \in DOMAIN last.prior[last.req.manifest.event_id]
    /\ events[last.req.manifest.event_id].manifest = last.req.manifest

\* the last step was an accepted callback for an id the table had no record of
CallbackForUnknownId ==
    CallbackAccepted /\ ~Has(last.prior, last.req.manifest.event_id)

C13_OneProviderCallPerSubmit ==
    /\ ValidSubmit => last.calls = 1 /\ last.code = 0
    /\ \A h \in BagToSet(pending) : h.calls = 1
    /\ SubmitReturned => last.calls = 1

\* C13 witness: a start-index was just answered 500 after its fetch was
\* rejected, while another handler still waits for the provider.
C13_Witness ==
    /\ SubmitReturned
    /\ last.code = 500
    /\ last.req.pc = "fetch"
    /\ last.calls = 1
    /\ BagCardinality(pending) > 0

\* C14: a record, once in the table, stays: every step leaves a record under
\* every name that had one before it, and a status query for a name that has
\* a record is answered 200 with that record, never 404.
C14_RecordsNeverRemoved ==
    /\ \A name \in DOMAIN last.prior : Has(events, name)
    /\ last.op = "get" /\ Has(last.prior, last.req.eventName)
       => /\ last.code = 200
          /\ last.body = events[last.req.eventName]

\* C14 witness: a status query was just answered 200 for a record that a
\* callback and then a late dispatch result have both written.
C14_Witness ==
    /\ last.op = "get" /\ last.code = 200
    /\ Has(events, last.req.eventName)
    /\ events[last.req.eventName].status = "processing"
    /\ HasManifest(events[last.req.eventName])

\* C15: a status query leaves the whole table as it was; it is answered 200
\* with the record when the name has one, and 404 when it has none, that is
\* when no valid start-index and no accepted callback ever carried the name
\* (records come from those two and, by C14, stay).
C15_StatusQueryPureRead ==
    last.op = "get"
    => /\ events = last.prior
       /\ IF Has(events, last.req.eventName)
          THEN last.code = 200 /\ last.body = events[last.req.eventName]
          ELSE last.code = 404 /\ last.body = [error |-> "not found"]

\* the event name the last step was about: the eventName of a start-index
\* (lines 22, 26, 54), the event_id of an accepted callback (line 77)
StepId ==
    IF last.op \in {"submit", "result"} THEN last.req.eventName
    ELSE IF last.op = "callback" /\ last.code = 200
    THEN last.req.manifest.event_id
    ELSE Undefined

\* C16: a start-index, its dispatch result (the provider call succeeded or
\* failed) and a callback, each for one id, leave the record of every other
\* id as it was and create no record under another id.
C16_OtherRecordsUntouched ==
    last.op \in {"submit", "result", "callback"}
    => /\ \A other \in DOMAIN last.prior \ {StepId} :
              Has(events, other) /\ events[other] = last.prior[other]
       /\ DOMAIN events \subseteq DOMAIN last.prior \cup {StepId}

\* C16 witness: a start-index for one id was just answered 500 after its
\* provider call failed, while the other id has a Ready record.
C16_Witness ==
    /\ SubmitReturned
    /\ last.code = 500
    /\ \E other \in DOMAIN events \ {last.req.eventName} :
          events[other].status = "ready"

\* C17: when WEBHOOK_SECRET is unset or empty, every callback, whatever
\* x-runpod-secret header it presents or omits, is answered 200 {ok: true}
\* and applied: the record of the id it names is Ready and holds its body
\* as manifest.
C17_NoSecretAcceptsAll ==
    last.op = "callback" /\ ~Truthy(secret)
    => /\ last.code = 200
       /\ last.body = [ok |-> TRUE]
       /\ LET name == last.req.manifest.event_id IN
          Truthy(name)
          => /\ Has(events, name)
             /\ events[name].status = "ready"
             /\ events[name].manifest = last.req.manifest

\* C17 witness: with WEBHOOK_SECRET unset, a callback was just accepted and
\* made Ready a record that a start-index had created.
C17_Witness ==
    /\ secret = Undefined
    /\ CallbackAccepted
    /\ Has(last.prior, last.req.manifest.event_id)
    /\ ~HasManifest(last.prior[last.req.manifest.event_id])
    /\ events[last.req.manifest.event_id].manifest = last.req.manifest

\* the last step was a callback that the secret check of lines 66-73 lets
\* through: no secret is configured, or the header read equals it
PassedSecretCheck ==
    /\ last.op = "callback"
    /\ ~Truthy(secret) \/ last.req.hdr = secret

\* C18: a callback that passes the secret check and whose body has no
\* event_id, or an empty one, is answered 200 {ok: true} and leaves the
\* whole table as it was.
C18_CallbackWithoutIdIgnored ==
    PassedSecretCheck
    => /\ last.code = 200
       /\ ~Truthy(last.req.manifest.event_id)
          => /\ last.body = [ok |-> TRUE]
             /\ events = last.prior

\* C18 witness: with a secret configured, a callback presenting it and
\* carrying no event_id was just answered 200 while the table held records.
C18_Witness ==
    /\ PassedSecretCheck
    /\ Truthy(secret)
    /\ last.code = 200
    /\ last.req.manifest.event_id = Undefined
    /\ DOMAIN events /= {}
    /\ events = last.prior

\* C19: in a run of the entrypoint script in which the indexer has ended,
\* the script has, when it exits, posted the manifest exactly once if the
\* manifest file exists and CALLBACK_URL is set (non-empty), whatever the
\* indexer's exit code, and not at all otherwise.
C19_ManifestPostedOnce ==
    sh.pc = "exited" /\ sh.ended
    => sh.posts = (IF sh.manifest /\ Truthy(sh.cbUrl) THEN 1 ELSE 0)

====
